---- MODULE Spec2Model ----
(***************************************************************************)
(* django-lightning-service: the in-memory, temporally versioned entity    *)
(* store (src/entity.rs, src/entity_store.rs, src/expression.rs).          *)
(*                                                                         *)
(* An Rc<Entity> is a handle: the position of the entity in the arena      *)
(* `entities`, in allocation order.  A Uuid::new_v4() is a fresh number:   *)
(* the position of the identifier in `identifiers`.  A panic unwinds to    *)
(* the caller and leaves the store as the panicking call left it.          *)
(***************************************************************************)
EXTENDS Integers, Sequences, FiniteSets, TLC

VARIABLES
    identifiers,          \* identifiers minted by the caller with new / new_persisted
    entities,             \* arena of the entities EntityStorage::add wrapped in an Rc
    storage,              \* EntityStorage.storage: Model -> Vec<Rc<Entity>>
    entities_uuid_index,  \* EntityIdentifierIndex.entities_uuid_index
    entities_pk_index,    \* EntityIdentifierIndex.entities_pk_index
    epoch_ptr,            \* the two EpochPtr cells of the store
    last,                 \* the last call made by the caller with its result
    kept                  \* an earlier call whose handle the caller has kept

storeVars == <<entities, storage, entities_uuid_index, entities_pk_index, epoch_ptr>>
vars == <<identifiers, entities, storage, entities_uuid_index, entities_pk_index,
          epoch_ptr, last, kept>>

----------------------------------------------------------------------------
\* Bounds of the model.
MaxUuid == 2
MaxEpoch == 2
MaxAttrHistory == 3
MaxFilterEntities == 2
MaxFilterWrites == 1
MaxFrameWrites == 2

Models == {"User", "Book"}
PKs == {1, 2}
Epochs == 0..MaxEpoch
Names == {"name", "age"}

\* Option<PK>::None
NoPK == 0

EmptyMap == [x \in {} |-> 0]

----------------------------------------------------------------------------
\* DatabaseValue: a tagged scalar.
String(s) == [tag |-> "String", str |-> s, num |-> 0]
Number(n) == [tag |-> "Number", str |-> "", num |-> n]
None == [tag |-> "None", str |-> "", num |-> 0]

Values == {Number(1), String("a"), None}

DatabaseValue_eq_NoneEqualsAll(a, b) ==
    CASE a.tag = "None" \/ b.tag = "None" -> TRUE
      [] a.tag = "String" /\ b.tag = "String" -> a.str = b.str
      [] a.tag = "Number" /\ b.tag = "Number" -> a.num = b.num
      [] OTHER -> FALSE

DatabaseValue_eq(a, b) ==
    CASE a.tag = "None" /\ b.tag = "None" -> TRUE
      [] a.tag = "None" -> FALSE
      [] b.tag = "None" -> FALSE
      [] a.tag = "String" /\ b.tag = "String" -> a.str = b.str
      [] a.tag = "Number" /\ b.tag = "Number" -> a.num = b.num
      [] OTHER -> FALSE

----------------------------------------------------------------------------
\* Results of calls: Ok(value), Err(EntityError) or a panic.
Ok(v) == [status |-> "Ok", val |-> v]
Err(e) == [status |-> "Err", val |-> e]
Panic == [status |-> "Panic", val |-> "not yet implemented"]

AttributeNotFound(name) == [kind |-> "AttributeNotFound", payload |-> name]
EntityNotFound(identifier) == [kind |-> "EntityNotFound", payload |-> identifier]
UnpersistedEntity(identifier) == [kind |-> "UnpersistedEntity", payload |-> identifier]

----------------------------------------------------------------------------
\* The host boundary (lib.rs): a core error becomes a host exception.
PyException(args) == [type |-> "PyException", args |-> args]

\* to_python_error.  display is the text format!("{}", identifier) writes: the
\* Display implementation of EntityIdentifier is not part of the sources, so the
\* text is an input of the call.
to_python_error(entity_error, display) ==
    IF entity_error.kind = "EntityNotFound"
    THEN PyException(<<"EntityNotFound(", display, ")">>)
    ELSE PyException(<<"oops">>)

----------------------------------------------------------------------------
\* PhysicalAttribute: the value history and the two cursors it is bound to.
AttributeValue(epoch, value) == [epoch |-> epoch, value |-> value]

PhysicalAttribute_new_Swapped(current_epoch_ptr, initial_epoch_ptr) ==
    [current_epoch_ptr |-> initial_epoch_ptr,
     initial_epoch_ptr |-> current_epoch_ptr,
     value_history |-> <<>>]

PhysicalAttribute_new(current_epoch_ptr, initial_epoch_ptr) ==
    [current_epoch_ptr |-> current_epoch_ptr,
     initial_epoch_ptr |-> initial_epoch_ptr,
     value_history |-> <<>>]

RECURSIVE get_at_epoch_rev(_, _, _)
\* The loop of get_at_epoch over value_history.iter().rev(), at position i: the
\* first entry met whose epoch is <= epoch, else (i = 0) the first entry of the
\* history.  An empty history is never read: PhysicalAttribute::new is private
\* and Entity::new seeds every attribute.
get_at_epoch_rev(value_history, epoch, i) ==
    IF i = 0 THEN value_history[1].value
    ELSE IF value_history[i].epoch <= epoch THEN value_history[i].value
    ELSE get_at_epoch_rev(value_history, epoch, i - 1)

\* Walks the history from the oldest entry instead of the newest.
get_at_epoch_Forward(value_history, epoch) ==
    LET RECURSIVE fwd(_)
        fwd(i) == IF i > Len(value_history) THEN value_history[1].value
                  ELSE IF value_history[i].epoch <= epoch THEN value_history[i].value
                  ELSE fwd(i + 1)
    IN  fwd(1)

get_at_epoch(value_history, epoch) ==
    get_at_epoch_rev(value_history, epoch, Len(value_history))

InsertAt(s, i, e) == SubSeq(s, 1, i - 1) \o <<e>> \o SubSeq(s, i, Len(s))

\* Pushes the entry at the end of the history, whatever its epoch.
insert_at_epoch_from_Push(value_history, value, epoch, i) ==
    Append(value_history, AttributeValue(epoch, value))

RECURSIVE insert_at_epoch_from(_, _, _, _)
\* The loop of insert_at_epoch over value_history.iter().enumerate(), at position
\* i: inserts before the first entry with a strictly greater epoch, else pushes.
insert_at_epoch_from(value_history, value, epoch, i) ==
    IF i > Len(value_history) THEN Append(value_history, AttributeValue(epoch, value))
    ELSE IF value_history[i].epoch > epoch
    THEN InsertAt(value_history, i, AttributeValue(epoch, value))
    ELSE insert_at_epoch_from(value_history, value, epoch, i + 1)

\* Inserts before the first entry with a greater or equal epoch.
insert_at_epoch_BeforeEqual(value_history, value, epoch) ==
    LET RECURSIVE from(_)
        from(i) == IF i > Len(value_history)
                   THEN Append(value_history, AttributeValue(epoch, value))
                   ELSE IF value_history[i].epoch >= epoch
                   THEN InsertAt(value_history, i, AttributeValue(epoch, value))
                   ELSE from(i + 1)
    IN  from(1)

insert_at_epoch(value_history, value, epoch) ==
    insert_at_epoch_from(value_history, value, epoch, 1)

get_initial(attr) == get_at_epoch(attr.value_history, epoch_ptr[attr.initial_epoch_ptr])

get_value(attr) == get_at_epoch(attr.value_history, epoch_ptr[attr.current_epoch_ptr])

set_value(attr, value, epoch) ==
    [attr EXCEPT !.value_history = insert_at_epoch(@, value, epoch)]

----------------------------------------------------------------------------
\* EntityIdentifier: (model, Option<PK>, Uuid).
has_applied_pk(identifier) == identifier.pk # NoPK

\* Compares the PK without the model.
EntityIdentifier_eq_AnyModel(a, b) ==
    IF a.uuid = b.uuid THEN TRUE
    ELSE has_applied_pk(a) /\ has_applied_pk(b) /\ a.pk = b.pk

EntityIdentifier_eq(a, b) ==
    IF a.uuid = b.uuid THEN TRUE
    ELSE has_applied_pk(a) /\ has_applied_pk(b) /\ a.model = b.model /\ a.pk = b.pk

get_applied_pk(identifier) ==
    IF identifier.pk = NoPK THEN Err(UnpersistedEntity(identifier)) ELSE Ok(identifier.pk)

set_applied_pk(identifier, pk) == [identifier EXCEPT !.pk = pk]

\* The identifiers the caller can hold: the minted ones, and their clones after
\* set_applied_pk (a clone keeps the model and the UUID).
Minted == {identifiers[i] : i \in DOMAIN identifiers}

Held == Minted \cup {set_applied_pk(id, pk) : id \in Minted, pk \in PKs}

----------------------------------------------------------------------------
\* Attribute descriptors and Entity::new.
Physical(name, initial) == [kind |-> "Physical", name |-> name, initial |-> initial]
ManyToMany(name) == [kind |-> "ManyToMany", name |-> name, initial |-> None]

\* Stops at the first ManyToMany descriptor and keeps the attributes built so far.
Entity_new_attributes_Skip(attributes, physicals, initial_ptr, current_ptr) ==
    LET RECURSIVE build(_, _)
        build(ds, acc) ==
            IF ds = <<>> \/ Head(ds).kind = "ManyToMany" THEN Ok(acc)
            ELSE build(Tail(ds),
                       (Head(ds).name :>
                            set_value(PhysicalAttribute_new(current_ptr, initial_ptr),
                                      Head(ds).initial, epoch_ptr[initial_ptr]))
                       @@ [n \in DOMAIN acc \ {Head(ds).name} |-> acc[n]])
    IN  build(attributes, physicals)

\* Seeds every attribute at the epoch of the current cursor.
Entity_new_attributes_SeedAtCurrent(attributes, physicals, initial_ptr, current_ptr) ==
    LET RECURSIVE build(_, _)
        build(ds, acc) ==
            IF ds = <<>> THEN Ok(acc)
            ELSE IF Head(ds).kind = "ManyToMany" THEN Panic
            ELSE build(Tail(ds),
                       (Head(ds).name :>
                            set_value(PhysicalAttribute_new(current_ptr, initial_ptr),
                                      Head(ds).initial, epoch_ptr[current_ptr]))
                       @@ [n \in DOMAIN acc \ {Head(ds).name} |-> acc[n]])
    IN  build(attributes, physicals)

RECURSIVE Entity_new_attributes(_, _, _, _)
\* The loop of Entity::new over the descriptors: "panic" at the first ManyToMany
\* descriptor, else the map name -> attribute seeded at the initial cursor's epoch.
Entity_new_attributes(attributes, physicals, initial_ptr, current_ptr) ==
    IF attributes = <<>> THEN Ok(physicals)
    ELSE LET attribute == Head(attributes)
         IN  IF attribute.kind = "ManyToMany" THEN Panic
             ELSE LET attr == set_value(PhysicalAttribute_new(current_ptr, initial_ptr),
                                        attribute.initial, epoch_ptr[initial_ptr])
                      rest == [n \in DOMAIN physicals \ {attribute.name} |-> physicals[n]]
                  IN  Entity_new_attributes(Tail(attributes),
                                            (attribute.name :> attr) @@ rest,
                                            initial_ptr, current_ptr)

Entity_new(identifier, attributes, initial_ptr, current_ptr) ==
    LET physicals == Entity_new_attributes(attributes, EmptyMap, initial_ptr, current_ptr)
    IN  IF physicals.status = "Panic" THEN Panic
        ELSE Ok([identifier |-> identifier, physical_attributes |-> physicals.val])

\* Reports the failure without the name that was asked for.
Entity_get_NoName(entity, attribute) ==
    IF attribute \in DOMAIN entity.physical_attributes
    THEN Ok(entity.physical_attributes[attribute])
    ELSE Err(AttributeNotFound(""))

Entity_get(entity, attribute) ==
    IF attribute \in DOMAIN entity.physical_attributes
    THEN Ok(entity.physical_attributes[attribute])
    ELSE Err(AttributeNotFound(attribute))

----------------------------------------------------------------------------
\* EntityIdentifierIndex.
\* Looks the UUID up and not the (model, PK).
Index_get_UuidOnly(identifier) ==
    IF identifier.uuid \in DOMAIN entities_uuid_index
    THEN Ok(entities_uuid_index[identifier.uuid])
    ELSE Err(EntityNotFound(identifier))

\* Looks the (model, PK) up before the UUID.
Index_get_PkFirst(identifier) ==
    IF has_applied_pk(identifier)
       /\ identifier.model \in DOMAIN entities_pk_index
       /\ identifier.pk \in DOMAIN entities_pk_index[identifier.model]
    THEN Ok(entities_pk_index[identifier.model][identifier.pk])
    ELSE IF identifier.uuid \in DOMAIN entities_uuid_index
    THEN Ok(entities_uuid_index[identifier.uuid])
    ELSE Err(EntityNotFound(identifier))

Index_get(identifier) ==
    IF identifier.uuid \in DOMAIN entities_uuid_index
    THEN Ok(entities_uuid_index[identifier.uuid])
    ELSE IF has_applied_pk(identifier)
            /\ identifier.model \in DOMAIN entities_pk_index
            /\ identifier.pk \in DOMAIN entities_pk_index[identifier.model]
    THEN Ok(entities_pk_index[identifier.model][identifier.pk])
    ELSE Err(EntityNotFound(identifier))

MapInsert(map, key, value) ==
    (key :> value) @@ [k \in DOMAIN map \ {key} |-> map[k]]

\* Registers under the UUID only the entities that have no PK.
Index_add_uuid_UnlessPk(handle, identifier) ==
    IF has_applied_pk(identifier) THEN entities_uuid_index
    ELSE MapInsert(entities_uuid_index, identifier.uuid, handle)

\* Index add(handle): the new values of the two index maps.
Index_add_uuid(handle, identifier) ==
    MapInsert(entities_uuid_index, identifier.uuid, handle)

\* Registers the PK in a new inner map, dropping the other PKs of the model.
Index_add_pk_NewInner(handle, identifier) ==
    IF has_applied_pk(identifier)
    THEN MapInsert(entities_pk_index, identifier.model,
                   MapInsert(EmptyMap, identifier.pk, handle))
    ELSE entities_pk_index

Index_add_pk(handle, identifier) ==
    IF has_applied_pk(identifier)
    THEN LET inner == IF identifier.model \in DOMAIN entities_pk_index
                      THEN entities_pk_index[identifier.model] ELSE EmptyMap
         IN  MapInsert(entities_pk_index, identifier.model,
                       MapInsert(inner, identifier.pk, handle))
    ELSE entities_pk_index

\* Puts the handle at the front of the list of the model.
Storage_add_Front(handle, identifier) ==
    LET list == IF identifier.model \in DOMAIN storage
                THEN storage[identifier.model] ELSE <<>>
    IN  MapInsert(storage, identifier.model, <<handle>> \o list)

\* EntityStorage::add: the new storage map after the push of the handle.
Storage_add(handle, identifier) ==
    LET list == IF identifier.model \in DOMAIN storage
                THEN storage[identifier.model] ELSE <<>>
    IN  MapInsert(storage, identifier.model, Append(list, handle))

----------------------------------------------------------------------------
\* FilterExpression: the Exact variant.
Exact(attribute, value) == [variant |-> "Exact", attribute |-> attribute, value |-> value]

Expressions == {Exact(n, v) : n \in Names, v \in Values}

\* Compares the values only.
ExactExpression_contains_AnyAttribute(self, other) ==
    IF other.variant = "Exact"
    THEN DatabaseValue_eq(self.value, other.value)
    ELSE FALSE

\* Compares the attribute names only.
ExactExpression_contains_AnyValue(self, other) ==
    IF other.variant = "Exact"
    THEN self.attribute = other.attribute
    ELSE FALSE

ExactExpression_contains(self, other) ==
    IF other.variant = "Exact"
    THEN self.attribute = other.attribute /\ DatabaseValue_eq(self.value, other.value)
    ELSE FALSE

ExactExpression_match_entity(self, entity) ==
    LET attr == Entity_get(entity, self.attribute)
    IN  IF attr.status = "Err" THEN attr
        ELSE Ok(DatabaseValue_eq(get_value(attr.val), self.value))

match_entity(filter_expression, entity) ==
    ExactExpression_match_entity(filter_expression, entity)

RECURSIVE Storage_filter_Partial(_, _, _, _)
Storage_filter_Partial(list, filter_expression, i, result) ==
    IF i > Len(list) THEN Ok(result)
    ELSE LET m == match_entity(filter_expression, entities[list[i]])
         IN  IF m.status = "Err" THEN Ok(result)
             ELSE Storage_filter_Partial(list, filter_expression, i + 1,
                                  IF m.val THEN Append(result, list[i]) ELSE result)

RECURSIVE Storage_filter_loop(_, _, _, _)
\* The loop of EntityStorage::filter over the model's list, at position i: an
\* error of match_entity ends the call with that error (the ? operator).
Storage_filter_loop(list, filter_expression, i, result) ==
    IF i > Len(list) THEN Ok(result)
    ELSE LET m == match_entity(filter_expression, entities[list[i]])
         IN  IF m.status = "Err" THEN m
             ELSE Storage_filter_loop(list, filter_expression, i + 1,
                                  IF m.val THEN Append(result, list[i]) ELSE result)

\* Fails on a model that has no list, as on an entity without the attribute.
Storage_filter_MissingModel(model, filter_expression) ==
    IF model \in DOMAIN storage
    THEN Storage_filter_loop(storage[model], filter_expression, 1, <<>>)
    ELSE Err(AttributeNotFound(filter_expression.attribute))

Storage_filter(model, filter_expression) ==
    IF model \in DOMAIN storage
    THEN Storage_filter_loop(storage[model], filter_expression, 1, <<>>)
    ELSE Ok(<<>>)

----------------------------------------------------------------------------
\* The calls of the caller.  Every call records itself and its result in last.

Init ==
    /\ identifiers = <<>>
    /\ entities = <<>>
    /\ storage = EmptyMap
    /\ entities_uuid_index = EmptyMap
    /\ entities_pk_index = EmptyMap
    /\ epoch_ptr = [initial_ptr |-> 0, current_ptr |-> 0]
    /\ last = [op |-> "EntityStore::new"]
    /\ kept = [op |-> "none"]

\* EntityIdentifier::new(model): a fresh UUID and no PK.
EntityIdentifier_new(model) ==
    LET identifier == [model |-> model, pk |-> NoPK, uuid |-> Len(identifiers) + 1]
    IN  /\ identifiers' = Append(identifiers, identifier)
        /\ last' = [op |-> "new", res |-> Ok(identifier)]
        /\ UNCHANGED <<storeVars, kept>>

\* EntityIdentifier::new_persisted(model, pk): a fresh UUID and the PK.
EntityIdentifier_new_persisted(model, pk) ==
    LET identifier == [model |-> model, pk |-> pk, uuid |-> Len(identifiers) + 1]
    IN  /\ identifiers' = Append(identifiers, identifier)
        /\ last' = [op |-> "new_persisted", res |-> Ok(identifier)]
        /\ UNCHANGED <<storeVars, kept>>

\* EpochPtr::slide on one of the two cursors of the store.
slide(ptr, epoch) ==
    /\ epoch_ptr' = [epoch_ptr EXCEPT ![ptr] = epoch]
    /\ last' = [op |-> "slide", ptr |-> ptr, epoch |-> epoch, res |-> Ok(epoch)]
    /\ UNCHANGED <<identifiers, entities, storage, entities_uuid_index,
                   entities_pk_index, kept>>

\* EntityStore::add_entity: the existing handle when the index resolves the
\* identifier, else the entity is pushed to storage and registered in the index.
add_entity(entity, res) ==
    LET get_result == Index_get(entity.identifier)
        handle == Len(entities) + 1
    IN  IF get_result.status = "Err"
        THEN /\ entities' = Append(entities, entity)
             /\ storage' = Storage_add(handle, entity.identifier)
             /\ entities_uuid_index' = Index_add_uuid(handle, entity.identifier)
             /\ entities_pk_index' = Index_add_pk(handle, entity.identifier)
             /\ res = Ok(handle)
        ELSE /\ UNCHANGED <<entities, storage, entities_uuid_index, entities_pk_index>>
             /\ res = get_result

\* EntityStore::instantiate_entity: Entity::new, then add_entity.
instantiate_entity(identifier, attributes_descriptors) ==
    LET entity == Entity_new(identifier, attributes_descriptors, "initial_ptr", "current_ptr")
    IN  \E res \in {Panic} \cup {Ok(h) : h \in 1..(Len(entities) + 1)} :
          /\ IF entity.status = "Panic"
             THEN /\ res = Panic
                  /\ UNCHANGED <<entities, storage, entities_uuid_index, entities_pk_index>>
             ELSE add_entity(entity.val, res)
          /\ last' = [op |-> "instantiate", identifier |-> identifier,
                      attributes |-> attributes_descriptors, res |-> res]
          /\ UNCHANGED <<identifiers, epoch_ptr, kept>>

\* EntityStore::get.
store_get(identifier) ==
    /\ last' = [op |-> "get", identifier |-> identifier, res |-> Index_get(identifier)]
    /\ UNCHANGED <<identifiers, storeVars, kept>>

\* EntityStore::filter.
store_filter(model, filter_expression) ==
    /\ last' = [op |-> "filter", model |-> model, expr |-> filter_expression,
                res |-> Storage_filter(model, filter_expression)]
    /\ UNCHANGED <<identifiers, storeVars, kept>>

\* Entity::get on a handle the store returned.
entity_get(handle, attribute) ==
    LET attr == Entity_get(entities[handle], attribute)
    IN  /\ last' = [op |-> "entity.get", handle |-> handle, name |-> attribute,
                    res |-> IF attr.status = "Ok" THEN Ok(attribute) ELSE attr]
        /\ UNCHANGED <<identifiers, storeVars, kept>>

\* A read that records the value it returns in the history, at the cursor's epoch.
attribute_get_value_Recording(handle, attribute) ==
    LET attr == entities[handle].physical_attributes[attribute]
    IN  /\ attribute \in DOMAIN entities[handle].physical_attributes
        /\ last' = [op |-> "get_value", handle |-> handle, name |-> attribute,
                    res |-> Ok(get_value(attr))]
        /\ entities' = [entities EXCEPT ![handle].physical_attributes[attribute] =
                          set_value(@, get_value(attr), epoch_ptr[attr.current_epoch_ptr])]
        /\ UNCHANGED <<identifiers, storage, entities_uuid_index, entities_pk_index,
                       epoch_ptr, kept>>

\* entity.get(name).unwrap().get_value()
attribute_get_value(handle, attribute) ==
    /\ attribute \in DOMAIN entities[handle].physical_attributes
    /\ last' = [op |-> "get_value", handle |-> handle, name |-> attribute,
                res |-> Ok(get_value(entities[handle].physical_attributes[attribute]))]
    /\ UNCHANGED <<identifiers, storeVars, kept>>

\* entity.get(name).unwrap().get_initial()
attribute_get_initial(handle, attribute) ==
    /\ attribute \in DOMAIN entities[handle].physical_attributes
    /\ last' = [op |-> "get_initial", handle |-> handle, name |-> attribute,
                res |-> Ok(get_initial(entities[handle].physical_attributes[attribute]))]
    /\ UNCHANGED <<identifiers, storeVars, kept>>

\* Writes the value to every attribute of the entity.
attribute_set_value_EveryAttribute(handle, attribute, value, epoch) ==
    /\ attribute \in DOMAIN entities[handle].physical_attributes
    /\ entities' = [entities EXCEPT ![handle].physical_attributes =
                      [n \in DOMAIN @ |-> set_value(@[n], value, epoch)]]
    /\ last' = [op |-> "set_value", handle |-> handle, name |-> attribute,
                value |-> value, epoch |-> epoch, res |-> Ok(value)]
    /\ UNCHANGED <<identifiers, storage, entities_uuid_index, entities_pk_index,
                   epoch_ptr, kept>>

\* entity.get(name).unwrap().set_value(value, epoch)
attribute_set_value(handle, attribute, value, epoch) ==
    /\ attribute \in DOMAIN entities[handle].physical_attributes
    /\ entities' = [entities EXCEPT ![handle].physical_attributes[attribute] =
                                       set_value(@, value, epoch)]
    /\ last' = [op |-> "set_value", handle |-> handle, name |-> attribute,
                value |-> value, epoch |-> epoch, res |-> Ok(value)]
    /\ UNCHANGED <<identifiers, storage, entities_uuid_index, entities_pk_index,
                   epoch_ptr, kept>>

\* self.contains(&other.into())
expression_contains(self, other) ==
    /\ last' = [op |-> "contains", self |-> self, other |-> other,
                res |-> Ok(ExactExpression_contains(self, other))]
    /\ UNCHANGED <<identifiers, storeVars, kept>>

\* impl From<EntityError> for PyErr: the conversion of an error the core returned.
PyErr_from(value, display) ==
    /\ last' = [op |-> "PyErr::from", err |-> value,
                res |-> to_python_error(value, display)]
    /\ UNCHANGED <<identifiers, storeVars, kept>>

\* let entity = entity_store.instantiate_entity(..) / entity_store.get(..).unwrap():
\* the caller keeps the handle the last call returned, with the identifier given.
keep ==
    /\ last.op \in {"instantiate", "get"}
    /\ last.res.status = "Ok"
    /\ kept' = [op |-> last.op, identifier |-> last.identifier, handle |-> last.res.val]
    /\ UNCHANGED <<identifiers, storeVars, last>>

----------------------------------------------------------------------------
\* The inputs of the calls.
Handles == DOMAIN entities

Cursors == {"initial_ptr", "current_ptr"}

\* Number of set_value calls the caller has made: the entries of all the
\* histories, the seed of each attribute not counted.
Writes ==
    LET RECURSIVE SumNames(_, _)
        SumNames(attrs, names) ==
            IF names = {} THEN 0
            ELSE LET n == CHOOSE n \in names : TRUE
                 IN  Len(attrs[n].value_history) - 1 + SumNames(attrs, names \ {n})
        RECURSIVE SumHandles(_)
        SumHandles(h) ==
            IF h = 0 THEN 0
            ELSE SumNames(entities[h].physical_attributes,
                          DOMAIN entities[h].physical_attributes) + SumHandles(h - 1)
    IN  SumHandles(Len(entities))

\* The reads.
Reads(ids) ==
    \/ \E identifier \in ids : store_get(identifier)
    \/ \E model \in Models, expr \in Expressions : store_filter(model, expr)
    \/ \E handle \in Handles, name \in Names : entity_get(handle, name)
    \/ \E handle \in Handles, name \in Names : attribute_get_value(handle, name)
    \/ \E handle \in Handles, name \in Names : attribute_get_initial(handle, name)

----------------------------------------------------------------------------
\* Spec: identity and the index.  Identifiers of both models, with and without
\* PK, cloned and given a PK, are instantiated and looked up.  Every stored
\* entity has its own UUID, so MaxUuid bounds the entities too.
StoreLists ==
    {<<Physical("name", Number(1))>>,
     <<Physical("name", Number(1)), ManyToMany("age")>>,
     <<ManyToMany("name"), Physical("age", None)>>}

Next ==
    \/ \E model \in Models :
          Len(identifiers) < MaxUuid /\ EntityIdentifier_new(model)
    \/ \E model \in Models, pk \in PKs :
          Len(identifiers) < MaxUuid /\ EntityIdentifier_new_persisted(model, pk)
    \/ \E identifier \in Held, attributes \in StoreLists :
          instantiate_entity(identifier, attributes)
    \/ \E identifier \in Held : store_get(identifier)

Spec == Init /\ [][Next]_vars

----------------------------------------------------------------------------
\* SpecDedup: deduplication over time.  As Spec, and the caller keeps a handle
\* it was given while it goes on instantiating, with the same and with other
\* identifiers and descriptors.
DedupLists == {<<>>, <<Physical("name", Number(1))>>, <<ManyToMany("age")>>}

NextDedup ==
    \/ \E model \in Models :
          Len(identifiers) < MaxUuid /\ EntityIdentifier_new(model)
    \/ \E model \in Models, pk \in PKs :
          Len(identifiers) < MaxUuid /\ EntityIdentifier_new_persisted(model, pk)
    \/ \E identifier \in Held, attributes \in DedupLists :
          instantiate_entity(identifier, attributes)
    \/ \E identifier \in Held : store_get(identifier)
    \/ keep

SpecDedup == Init /\ [][NextDedup]_vars

----------------------------------------------------------------------------
\* SpecAttr: one temporal attribute in depth.  A single entity with the
\* attribute "name", written at any epoch in any order and read through the two
\* cursors, which slide freely, before and after the entity is made.
AttrLists == {<<Physical("name", v)>> : v \in Values}

NextAttr ==
    \/ identifiers = <<>> /\ EntityIdentifier_new("User")
    \/ \E identifier \in Minted, attributes \in AttrLists :
          instantiate_entity(identifier, attributes)
    \/ \E handle \in Handles, name \in Names, value \in Values, epoch \in Epochs :
          Writes + 1 < MaxAttrHistory /\ attribute_set_value(handle, name, value, epoch)
    \/ \E ptr \in Cursors, epoch \in Epochs : slide(ptr, epoch)
    \/ \E handle \in Handles, name \in Names : entity_get(handle, name)
    \/ \E handle \in Handles, name \in Names : attribute_get_value(handle, name)
    \/ \E handle \in Handles, name \in Names : attribute_get_initial(handle, name)

SpecAttr == Init /\ [][NextAttr]_vars

----------------------------------------------------------------------------
\* SpecFilter: filtering and the reads.  Entities of both models, with and
\* without the attribute "name", written at any epoch, filtered and read while
\* the current cursor slides.
FilterLists ==
    {<<>>, <<Physical("name", Number(1))>>, <<Physical("name", None)>>}

NextFilter ==
    \/ \E model \in Models :
          Len(identifiers) < MaxFilterEntities /\ EntityIdentifier_new(model)
    \/ \E identifier \in Minted, attributes \in FilterLists :
          instantiate_entity(identifier, attributes)
    \/ \E handle \in Handles, name \in Names, value \in Values, epoch \in Epochs :
          Writes < MaxFilterWrites /\ attribute_set_value(handle, name, value, epoch)
    \/ \E epoch \in Epochs : slide("current_ptr", epoch)
    \/ Reads(Minted)

SpecFilter == Init /\ [][NextFilter]_vars

----------------------------------------------------------------------------
\* SpecEntity: the construction of an entity.  A single identifier is
\* instantiated with lists of up to two Physical descriptors, of distinct names
\* or twice the same name, at any position of the two cursors; the entity is
\* then read, and expressions are compared with each other.
EntityDescriptors == {Physical(n, v) : n \in Names, v \in Values}

EntityLists ==
    {<<>>} \cup {<<d>> : d \in EntityDescriptors}
           \cup {<<d, e>> : d \in EntityDescriptors, e \in EntityDescriptors}

NextEntity ==
    \/ identifiers = <<>> /\ EntityIdentifier_new("User")
    \/ \E identifier \in Minted, attributes \in EntityLists :
          instantiate_entity(identifier, attributes)
    \/ \E ptr \in Cursors, epoch \in Epochs : slide(ptr, epoch)
    \/ \E handle \in Handles, name \in Names : entity_get(handle, name)
    \/ \E handle \in Handles, name \in Names : attribute_get_value(handle, name)
    \/ \E handle \in Handles, name \in Names : attribute_get_initial(handle, name)
    \/ \E self \in Expressions, other \in Expressions : expression_contains(self, other)

SpecEntity == Init /\ [][NextEntity]_vars

----------------------------------------------------------------------------
\* SpecExpr: the comparison of expressions, over attribute names and values of
\* every kind, equal and different.
ExprNames == {"name", "surname", "age"}

ExprValues == {String("john"), String("doe"), Number(1), Number(2), None}

ExprInputs == {Exact(n, v) : n \in ExprNames, v \in ExprValues}

NextExpr ==
    \E self \in ExprInputs, other \in ExprInputs : expression_contains(self, other)

SpecExpr == Init /\ [][NextExpr]_vars

----------------------------------------------------------------------------
\* SpecHost: the errors at the host boundary.  The host mints identifiers,
\* instantiates them with the descriptors of PyEntityStore::instantiate_entity,
\* and converts the errors the core returns to it.
HostLists ==
    {<<Physical("name", String("default name")), Physical("age", String("default age"))>>}

HostNames == {"name", "oops"}

DisplayTexts == {"", "id"}

NextHost ==
    \/ \E model \in Models :
          Len(identifiers) < MaxUuid /\ EntityIdentifier_new(model)
    \/ \E model \in Models, pk \in PKs :
          Len(identifiers) < MaxUuid /\ EntityIdentifier_new_persisted(model, pk)
    \/ \E identifier \in Minted, attributes \in HostLists :
          instantiate_entity(identifier, attributes)
    \/ \E identifier \in Held, display \in DisplayTexts :
          /\ Index_get(identifier).status = "Err"
          /\ PyErr_from(Index_get(identifier).val, display)
    \/ \E identifier \in Held, display \in DisplayTexts :
          /\ get_applied_pk(identifier).status = "Err"
          /\ PyErr_from(get_applied_pk(identifier).val, display)
    \/ \E handle \in Handles, name \in HostNames, display \in DisplayTexts :
          /\ Entity_get(entities[handle], name).status = "Err"
          /\ PyErr_from(Entity_get(entities[handle], name).val, display)

SpecHost == Init /\ [][NextHost]_vars

----------------------------------------------------------------------------
\* SpecFrame: what a write leaves alone.  A User and then a Book, each with
\* the two attributes, are made at any position of the initial cursor and
\* written at any epoch, before or after their seeds.
FrameLists == {<<Physical("name", Number(1)), Physical("age", None)>>}

FrameValues == {String("a")}

FrameModels == <<"User", "Book">>

NextFrame ==
    \/ /\ Len(identifiers) < Len(FrameModels)
       /\ EntityIdentifier_new(FrameModels[Len(identifiers) + 1])
    \/ \E identifier \in Minted, attributes \in FrameLists :
          instantiate_entity(identifier, attributes)
    \/ \E handle \in Handles, name \in Names, value \in FrameValues, epoch \in Epochs :
          Writes < MaxFrameWrites /\ attribute_set_value(handle, name, value, epoch)
    \/ \E epoch \in Epochs : slide("initial_ptr", epoch)

SpecFrame == Init /\ [][NextFrame]_vars

----------------------------------------------------------------------------
\* Definitions used to state the properties.

History(handle, name) == entities[handle].physical_attributes[name].value_history

AttributesOf(handle) == DOMAIN entities[handle].physical_attributes

\* The entries of a history with the largest epoch <= epoch, or, when no entry
\* has an epoch <= epoch, the entries with the smallest epoch.
Governing(value_history, epoch) ==
    LET le == {i \in DOMAIN value_history : value_history[i].epoch <= epoch}
    IN  IF le # {}
        THEN {i \in le : \A j \in le : value_history[j].epoch <= value_history[i].epoch}
        ELSE {i \in DOMAIN value_history :
                \A j \in DOMAIN value_history :
                    value_history[i].epoch <= value_history[j].epoch}

ProbeEpochs == (0 - 1)..(MaxEpoch + 1)

\* C1: in every reachable state, a read of any attribute at any epoch E returns
\* the value of a history entry with the largest epoch <= E, and the value of an
\* entry with the smallest epoch when every entry's epoch is greater than E.
C1_HistoryOrdering ==
    \A handle \in Handles : \A name \in AttributesOf(handle) : \A E \in ProbeEpochs :
        \E i \in Governing(History(handle, name), E) :
            get_at_epoch(History(handle, name), E) = History(handle, name)[i].value

\* A read before the whole history returned the earliest entry, which an entry
\* inserted later (out of order) precedes in time of insertion.
C1_Witness ==
    /\ last.op = "get_value"
    /\ LET h == History(last.handle, last.name)
       IN  /\ Len(h) = 3
           /\ h[1].epoch > epoch_ptr["current_ptr"]
           /\ h[1].epoch < h[3].epoch
           /\ h[1].value # h[2].value /\ h[1].value # h[3].value
           /\ last.res.val = h[1].value

\* C2: get_value() returns exactly the read at the epoch the current cursor
\* holds at the moment of the call, and get_initial() the read at the epoch the
\* initial cursor holds, whatever slides and writes came before.
C2_CursorBinding ==
    /\ last.op = "get_value" =>
          last.res = Ok(get_at_epoch(History(last.handle, last.name),
                                     epoch_ptr["current_ptr"]))
    /\ last.op = "get_initial" =>
          last.res = Ok(get_at_epoch(History(last.handle, last.name),
                                     epoch_ptr["initial_ptr"]))

\* get_value() was called with the current cursor behind the initial cursor, on
\* a history whose reads at the two cursors differ.
C2_Witness ==
    /\ last.op = "get_value"
    /\ epoch_ptr["current_ptr"] < epoch_ptr["initial_ptr"]
    /\ LET h == History(last.handle, last.name)
       IN  /\ get_at_epoch(h, epoch_ptr["current_ptr"]) # get_at_epoch(h, epoch_ptr["initial_ptr"])
           /\ last.res.val = get_at_epoch(h, epoch_ptr["current_ptr"])

\* C3: an instantiate_entity call that returns, made with the identifier of an
\* earlier instantiate_entity call, returns the entity the earlier call returned.
C3_SecondInstantiateSameEntity ==
    (/\ last.op = "instantiate"
     /\ last.res.status = "Ok"
     /\ kept.op = "instantiate"
     /\ kept.identifier = last.identifier)
    => last.res.val = kept.handle

C4_HandleResolves ==
    \A handle \in Handles : Index_get(entities[handle].identifier) = Ok(handle)

C4_SuccessiveGets ==
    (last.op = "get" /\ last'.op = "get" /\ last'.identifier = last.identifier)
    => last'.res = last.res

\* C4: in every reachable state every stored entity resolves through its own
\* identifier to itself, and two successive get calls with the same identifier
\* return the same result.
C4_IndexIdempotence == [](C4_HandleResolves) /\ [][C4_SuccessiveGets]_vars

\* get succeeded with the identifier of the second stored entity, which has a PK.
C4_Witness ==
    /\ last.op = "get"
    /\ last.res = Ok(2)
    /\ last.identifier = entities[2].identifier
    /\ has_applied_pk(last.identifier)

SameResolution(a, b) ==
    \/ Index_get(a).status = "Err" /\ Index_get(b).status = "Err"
    \/ Index_get(a).status = "Ok" /\ Index_get(a) = Index_get(b)

\* C5: any two identifiers the caller can hold that are equal resolve alike
\* through store.get: both fail, or both return the same entity.
C5_EqualIdentifiersSameEntity ==
    \A a \in Held : \A b \in Held : EntityIdentifier_eq(a, b) => SameResolution(a, b)

\* C6: two identifiers are equal when their UUIDs are equal; when the UUIDs
\* differ they are equal iff both have a PK and their models and PKs are equal.
C6_IdentifierEquality ==
    \A a \in Held : \A b \in Held :
        /\ a.uuid = b.uuid => EntityIdentifier_eq(a, b)
        /\ a.uuid # b.uuid =>
              (EntityIdentifier_eq(a, b)
                 <=> (a.pk # NoPK /\ b.pk # NoPK /\ a.model = b.model /\ a.pk = b.pk))

\* Two new_persisted identifiers with the same PK and different models, and a
\* clone of the first whose PK was set to another value, are held.
C6_Witness ==
    /\ Len(identifiers) = 2
    /\ has_applied_pk(identifiers[1])
    /\ identifiers[1].pk = identifiers[2].pk
    /\ identifiers[1].model # identifiers[2].model
    /\ \E c \in Held : c.uuid = identifiers[1].uuid /\ c.pk # identifiers[1].pk
                         /\ EntityIdentifier_eq(c, identifiers[1])
                         /\ ~EntityIdentifier_eq(identifiers[1], identifiers[2])

RECURSIVE Ascending(_)
\* The members of a set of handles in ascending order: the order of insertion.
Ascending(S) ==
    IF S = {} THEN <<>>
    ELSE LET m == CHOOSE x \in S : \A y \in S : x <= y
         IN  <<m>> \o Ascending(S \ {m})

StoredUnder(model) == {h \in Handles : entities[h].identifier.model = model}

Lacking(model, name) == {h \in StoredUnder(model) : name \notin AttributesOf(h)}

ValueNow(handle, name) == get_at_epoch(History(handle, name), epoch_ptr["current_ptr"])

\* C7: when every entity of the model has the attribute, filter(M, Exact(name, v))
\* returns exactly the entities stored under M whose attribute read at the
\* current cursor's epoch is v, each once, in insertion order.
C7_FilterCorrectness ==
    (last.op = "filter" /\ Lacking(last.model, last.expr.attribute) = {})
    => last.res = Ok(Ascending({h \in StoredUnder(last.model) :
                                  ValueNow(h, last.expr.attribute) = last.expr.value}))

\* filter returned the second of two entities of the model only, which matches
\* through a value written after its seed, the current cursor having slid.
C7_Witness ==
    /\ last.op = "filter"
    /\ last.res = Ok(<<2>>)
    /\ StoredUnder(last.model) = {1, 2}
    /\ epoch_ptr["current_ptr"] > 0
    /\ History(2, last.expr.attribute)[1].value # last.expr.value
    /\ History(2, last.expr.attribute)[2].value = last.expr.value

\* C8: when an entity stored under the model lacks the attribute, filter returns
\* the error AttributeNotFound(name) and no list.
C8_FilterNeverPartial ==
    (last.op = "filter" /\ Lacking(last.model, last.expr.attribute) # {})
    => last.res = Err(AttributeNotFound(last.expr.attribute))

\* filter failed on the second entity of the model after the first one matched.
C8_Witness ==
    /\ last.op = "filter"
    /\ last.res.status = "Err"
    /\ StoredUnder(last.model) = {1, 2}
    /\ Lacking(last.model, last.expr.attribute) = {2}
    /\ ValueNow(1, last.expr.attribute) = last.expr.value

ReadOps == {"get", "filter", "entity.get", "get_value", "get_initial"}

\* C9: a step of store.get, store.filter, entity.get, get_value or get_initial
\* leaves the storage, both index maps, every history and both cursors unchanged.
C9_ReadsMakeNoMutation ==
    [][last'.op \in ReadOps => UNCHANGED storeVars]_vars

\* A read failed on a store that holds two entities and a written attribute,
\* with the current cursor slid.
C9_Witness ==
    /\ last.op \in {"get", "filter", "entity.get"}
    /\ last.res.status = "Err"
    /\ Len(entities) = 2
    /\ epoch_ptr["current_ptr"] > 0
    /\ \E h \in Handles : \E n \in AttributesOf(h) : Len(History(h, n)) > 1

HasManyToMany(attributes) ==
    \E i \in DOMAIN attributes : attributes[i].kind = "ManyToMany"

\* C10: an instantiate_entity call whose descriptor list contains a ManyToMany
\* descriptor ends in the panic and leaves the arena, the storage, the UUID
\* index and the PK index unchanged.
C10_InstantiateAllOrNothing ==
    [][(last'.op = "instantiate" /\ HasManyToMany(last'.attributes))
       => (last'.res = Panic
           /\ UNCHANGED <<entities, storage, entities_uuid_index, entities_pk_index>>)]_vars

\* instantiate_entity panicked on a ManyToMany descriptor that follows a Physical
\* one, for an identifier with a PK that no stored entity resolves.
C10_Witness ==
    /\ last.op = "instantiate"
    /\ last.res = Panic
    /\ last.attributes[1].kind = "Physical"
    /\ has_applied_pk(last.identifier)
    /\ Index_get(last.identifier).status = "Err"
    /\ Len(entities) = 1

\* The position at which a set_value step placed its entry: the old history is
\* the new one without that position.
PlacedAt(old, new, i) ==
    /\ Len(new) = Len(old) + 1
    /\ i \in DOMAIN new
    /\ old = SubSeq(new, 1, i - 1) \o SubSeq(new, i + 1, Len(new))

\* The history of an attribute after the step.
HistoryAfter(handle, name) == entities'[handle].physical_attributes[name].value_history

\* C11: right after set_value(v, E) a read at epoch E returns v, and the new
\* entry stands after every existing entry with epoch <= E and before every
\* existing entry with a strictly greater epoch.
C11_LastWriteWinsAtTie ==
    [][last'.op = "set_value" =>
         LET old == History(last'.handle, last'.name)
             new == HistoryAfter(last'.handle, last'.name)
         IN  /\ get_at_epoch(new, last'.epoch) = last'.value
             /\ \E i \in DOMAIN new :
                   /\ PlacedAt(old, new, i)
                   /\ new[i] = AttributeValue(last'.epoch, last'.value)
                   /\ \A j \in DOMAIN new : j < i => new[j].epoch <= last'.epoch
                   /\ \A j \in DOMAIN new : j > i => new[j].epoch > last'.epoch]_vars

\* set_value wrote another value at an epoch the history already held, between
\* the entry of that epoch and an entry of a later epoch.
C11_Witness ==
    /\ last.op = "set_value"
    /\ LET h == History(last.handle, last.name)
       IN  /\ Len(h) = 3
           /\ h[2] = AttributeValue(last.epoch, last.value)
           /\ h[1].epoch = last.epoch
           /\ h[1].value # last.value
           /\ h[3].epoch > last.epoch
           /\ h[3].value # last.value

DescriptorNames(attributes) == {attributes[i].name : i \in DOMAIN attributes}

C12_NamesKept ==
    \A h \in Handles :
        /\ h \in DOMAIN entities'
        /\ DOMAIN entities'[h].physical_attributes = AttributesOf(h)

C12_NamesAtConstruction ==
    (Len(entities') # Len(entities)) =>
        /\ Len(entities') = Len(entities) + 1
        /\ last'.op = "instantiate"
        /\ DOMAIN entities'[Len(entities')].physical_attributes
              = DescriptorNames(last'.attributes)

C12_GetByName ==
    (last'.op = "entity.get") =>
        last'.res = IF last'.name \in AttributesOf(last'.handle)
                    THEN Ok(last'.name)
                    ELSE Err(AttributeNotFound(last'.name))

\* C12: every step keeps the attribute names of every stored entity; an entity
\* is only added by instantiate_entity, with exactly the names of the call's
\* descriptors; and entity.get(name) returns the attribute for these names and
\* AttributeNotFound(name), with the name asked for, for every other name.
C12_AttributeSetFixed ==
    [][C12_NamesKept /\ C12_NamesAtConstruction /\ C12_GetByName]_vars

\* entity.get failed for a name the entity was not made with, on an entity whose
\* other attribute had been written, the current cursor having slid.
C12_Witness ==
    /\ last.op = "entity.get"
    /\ last.res = Err(AttributeNotFound("age"))
    /\ AttributesOf(last.handle) = {"name"}
    /\ Len(History(last.handle, "name")) > 1
    /\ epoch_ptr["current_ptr"] > 0

\* The stored entities that were inserted with the UUID of the identifier, and
\* those inserted with its model and its PK.
WithUuid(identifier) ==
    {h \in Handles : entities[h].identifier.uuid = identifier.uuid}

WithPk(identifier) ==
    {h \in Handles : /\ has_applied_pk(identifier)
                      /\ entities[h].identifier.model = identifier.model
                      /\ entities[h].identifier.pk = identifier.pk}

C13_Lookup(identifier, res) ==
    IF WithUuid(identifier) # {}
    THEN res.status = "Ok" /\ res.val \in WithUuid(identifier)
    ELSE IF WithPk(identifier) # {}
    THEN res.status = "Ok" /\ res.val \in WithPk(identifier)
    ELSE res = Err(EntityNotFound(identifier))

C13_EveryGet ==
    /\ \A identifier \in Held : C13_Lookup(identifier, Index_get(identifier))
    /\ last.op = "get" => C13_Lookup(last.identifier, last.res)

\* The identifiers without PK the caller holds are the minted ones without PK:
\* a clone given a PK has one.
C13_KeepsResolving ==
    \A identifier \in {id \in Minted : ~has_applied_pk(id)} :
        /\ (last'.op = "instantiate" /\ last'.identifier = identifier
                /\ last'.res.status = "Ok")
             => (Index_get(identifier))' = last'.res
        /\ Index_get(identifier).status = "Ok"
             => (Index_get(identifier))' = Index_get(identifier)

\* C13: get(id) returns the entity stored with id's UUID when there is one,
\* else the entity stored with id's model and PK when id has a PK and there is
\* one, else EntityNotFound(id); and an identifier without PK resolves to the
\* entity instantiate_entity gave it after every later step.
C13_UuidFirstLookup == [](C13_EveryGet) /\ [][C13_KeepsResolving]_vars

\* get returned the entity stored with the identifier's UUID, while another
\* entity is stored with the identifier's model and PK.
C13_Witness ==
    /\ last.op = "get"
    /\ has_applied_pk(last.identifier)
    /\ WithUuid(last.identifier) = {2}
    /\ WithPk(last.identifier) = {1}
    /\ last.res = Ok(2)

\* Equality of two values as such: the same kind and the same content.
SameValue(a, b) ==
    /\ a.tag = b.tag
    /\ a.tag = "String" => a.str = b.str
    /\ a.tag = "Number" => a.num = b.num

\* C14: x.contains(y) is true iff y is an Exact with the attribute name of x and
\* a value equal to the value of x; contains is reflexive and symmetric.
C14_ContainsOnExact ==
    /\ last.op = "contains" =>
          last.res = Ok(/\ last.other.variant = "Exact"
                        /\ last.other.attribute = last.self.attribute
                        /\ SameValue(last.other.value, last.self.value))
    /\ \A x \in ExprInputs : ExactExpression_contains(x, x)
    /\ \A x \in ExprInputs : \A y \in ExprInputs :
          ExactExpression_contains(x, y) <=> ExactExpression_contains(y, x)

\* contains was false for two expressions on the same attribute whose values are
\* of the same kind and differ.
C14_Witness ==
    /\ last.op = "contains"
    /\ last.res = Ok(FALSE)
    /\ last.self.attribute = last.other.attribute
    /\ last.self.value.tag = "String"
    /\ last.other.value.tag = "String"

\* C15: filter on a model under which no entity is stored (none ever was, as
\* entities are never removed) returns the empty list, whatever the expression.
C15_FilterUnknownModel ==
    (last.op = "filter" /\ StoredUnder(last.model) = {}) => last.res = Ok(<<>>)

\* filter returned the empty list for a model without entities and an attribute
\* no stored entity has, while filter on the other model fails for that attribute.
C15_Witness ==
    /\ last.op = "filter"
    /\ last.res = Ok(<<>>)
    /\ StoredUnder(last.model) = {}
    /\ last.model \notin DOMAIN storage
    /\ Handles # {}
    /\ \A h \in Handles : last.expr.attribute \notin AttributesOf(h)
    /\ \E m \in Models : Storage_filter(m, last.expr).status = "Err"

\* C16: two core errors of different kinds, converted one after the other, give
\* two different host errors.
C16_ErrorsDistinguishable ==
    [][(last.op = "PyErr::from" /\ last'.op = "PyErr::from"
           /\ last.err.kind # last'.err.kind)
       => last.res # last'.res]_vars

C17_Sorted ==
    \A h \in Handles : \A n \in AttributesOf(h) :
        \A i \in DOMAIN History(h, n) : \A j \in DOMAIN History(h, n) :
            i < j => History(h, n)[i].epoch <= History(h, n)[j].epoch

C17_SetValueAddsOne ==
    (last'.op = "set_value") =>
        /\ \E i \in DOMAIN HistoryAfter(last'.handle, last'.name) :
              PlacedAt(History(last'.handle, last'.name),
                       HistoryAfter(last'.handle, last'.name), i)
        /\ \A h \in Handles : \A n \in AttributesOf(h) :
              (h # last'.handle \/ n # last'.name) => HistoryAfter(h, n) = History(h, n)

\* C17: in every reachable state the history of every attribute is sorted by
\* epoch, non-decreasing; a set_value step adds one entry to the history of its
\* attribute and leaves the other entries, in their order, and the other
\* histories as they were.
C17_HistorySorted == [](C17_Sorted) /\ [][C17_SetValueAddsOne]_vars

\* set_value wrote at an epoch before every entry of a history of two entries:
\* the new entry stands first.
C17_Witness ==
    /\ last.op = "set_value"
    /\ LET h == History(last.handle, last.name)
       IN  /\ Len(h) = 3
           /\ h[1] = AttributeValue(last.epoch, last.value)
           /\ h[2].epoch > last.epoch
           /\ h[3].epoch > h[2].epoch

DistinctNames(attributes) ==
    \A i \in DOMAIN attributes : \A j \in DOMAIN attributes :
        i # j => attributes[i].name # attributes[j].name

AllPhysical(attributes) ==
    \A i \in DOMAIN attributes : attributes[i].kind = "Physical"

\* C18: when an instantiate_entity step with Physical descriptors of distinct
\* names adds an entity, the history of each of its attributes is the single
\* entry (epoch of the initial cursor, initial value of the descriptor), and the
\* reads at the initial and at the current cursor both give the initial value.
C18_SeededAtConstruction ==
    [][(/\ last'.op = "instantiate"
        /\ Len(entities') = Len(entities) + 1
        /\ AllPhysical(last'.attributes)
        /\ DistinctNames(last'.attributes))
       => \A i \in DOMAIN last'.attributes :
            LET d == last'.attributes[i]
                new == HistoryAfter(Len(entities'), d.name)
            IN  /\ new = <<AttributeValue(epoch_ptr'["initial_ptr"], d.initial)>>
                /\ get_at_epoch(new, epoch_ptr'["initial_ptr"]) = d.initial
                /\ get_at_epoch(new, epoch_ptr'["current_ptr"]) = d.initial]_vars

\* instantiate_entity made an entity with two attributes of different initial
\* values while the current cursor was behind the initial cursor.
C18_Witness ==
    /\ last.op = "instantiate"
    /\ last.res = Ok(1)
    /\ Len(last.attributes) = 2
    /\ DistinctNames(last.attributes)
    /\ last.attributes[1].initial # last.attributes[2].initial
    /\ epoch_ptr["current_ptr"] < epoch_ptr["initial_ptr"]
    /\ \A i \in DOMAIN last.attributes :
          History(1, last.attributes[i].name)
            = <<AttributeValue(epoch_ptr["initial_ptr"], last.attributes[i].initial)>>

\* Number of positions of the storage lists that hold the handle.
RECURSIVE Occurrences(_, _)
Occurrences(handle, models) ==
    IF models = {} THEN 0
    ELSE LET m == CHOOSE m \in models : TRUE
         IN  Cardinality({i \in DOMAIN storage[m] : storage[m][i] = handle})
               + Occurrences(handle, models \ {m})

StoredHandles ==
    UNION {{storage[m][i] : i \in DOMAIN storage[m]} : m \in DOMAIN storage}

\* The (model, PK) slots of the PK index.
PkSlots ==
    {s \in (DOMAIN entities_pk_index) \X PKs : s[2] \in DOMAIN entities_pk_index[s[1]]}

C19_Agreement ==
    /\ StoredHandles = Handles
    /\ \A h \in Handles :
          /\ Occurrences(h, DOMAIN storage) = 1
          /\ \E i \in DOMAIN storage[entities[h].identifier.model] :
                storage[entities[h].identifier.model][i] = h
    /\ DOMAIN entities_uuid_index = {entities[h].identifier.uuid : h \in Handles}
    /\ \A h \in Handles : entities_uuid_index[entities[h].identifier.uuid] = h
    /\ \A m \in DOMAIN entities_pk_index : DOMAIN entities_pk_index[m] \subseteq PKs
    /\ PkSlots = {<<entities[h].identifier.model, entities[h].identifier.pk>> :
                    h \in {x \in Handles : has_applied_pk(entities[x].identifier)}}
    /\ \A h \in Handles :
          has_applied_pk(entities[h].identifier) =>
            entities_pk_index[entities[h].identifier.model][entities[h].identifier.pk] = h

C19_NoOverwrite ==
    /\ \A u \in DOMAIN entities_uuid_index :
          u \in DOMAIN entities_uuid_index' /\ entities_uuid_index'[u] = entities_uuid_index[u]
    /\ \A s \in PkSlots :
          /\ s[1] \in DOMAIN entities_pk_index'
          /\ s[2] \in DOMAIN entities_pk_index'[s[1]]
          /\ entities_pk_index'[s[1]][s[2]] = entities_pk_index[s[1]][s[2]]

\* C19: in every reachable state the storage lists hold every entity once, in
\* the list of its model; the UUID index holds exactly these entities, each
\* under its UUID; the PK index holds exactly those inserted with a PK, each
\* under its model and PK; and no step changes or removes a slot of an index.
C19_StorageIndexAgree == [](C19_Agreement) /\ [][C19_NoOverwrite]_vars

\* Two entities of one model are stored, inserted with different PKs, and a
\* held identifier with the UUID of the second and the PK of the first resolved.
C19_Witness ==
    /\ Len(entities) = 2
    /\ entities[1].identifier.model = entities[2].identifier.model
    /\ has_applied_pk(entities[1].identifier)
    /\ has_applied_pk(entities[2].identifier)
    /\ last.op = "instantiate"
    /\ last.res = Ok(2)
    /\ last.identifier.uuid = entities[2].identifier.uuid
    /\ last.identifier.pk = entities[1].identifier.pk

\* The entities Entity::new makes from the descriptor lists, at the current
\* position of the cursors.
Constructible ==
    {Entity_new([model |-> "User", pk |-> NoPK, uuid |-> 1], attributes,
                "initial_ptr", "current_ptr").val : attributes \in EntityLists}

C20_Subset(x, y, entity) ==
    (/\ match_entity(x, entity).status = "Ok"
     /\ match_entity(y, entity) = Ok(TRUE))
    => match_entity(x, entity) = Ok(TRUE)

C20_Separates(x, y, entity) ==
    match_entity(y, entity) = Ok(TRUE) /\ match_entity(x, entity) = Ok(FALSE)

\* C20: when x.contains(y) returned true, every stored entity on which x and y
\* both evaluate and that matches y matches x, at every position of the current
\* cursor; when it returned false, some entity matches y and does not match x.
C20_ContainsSound ==
    (last.op = "contains") =>
        IF last.res = Ok(TRUE)
        THEN \A h \in Handles : C20_Subset(last.self, last.other, entities[h])
        ELSE \E entity \in Constructible : C20_Separates(last.self, last.other, entity)

\* contains was false for two expressions on different attributes, and the
\* stored entity, which has both attributes, matches the second and not the
\* first, the current cursor being behind the initial cursor.
C20_Witness ==
    /\ last.op = "contains"
    /\ last.res = Ok(FALSE)
    /\ last.self.attribute # last.other.attribute
    /\ DatabaseValue_eq(last.self.value, last.other.value)
    /\ Len(entities) = 1
    /\ epoch_ptr["current_ptr"] < epoch_ptr["initial_ptr"]
    /\ C20_Separates(last.self, last.other, entities[1])

\* C21: a get call made with the identifier of an earlier get call that returned
\* a handle returns that handle.
C21_LookupStable ==
    (/\ last.op = "get"
     /\ kept.op = "get"
     /\ kept.identifier = last.identifier)
    => last.res = Ok(kept.handle)

\* C22: over the identifiers the caller can hold, equality is reflexive,
\* symmetric and transitive.
C22_EqualityEquivalence ==
    \A a \in Held : \A b \in Held : \A c \in Held :
        /\ EntityIdentifier_eq(a, a)
        /\ EntityIdentifier_eq(a, b) => EntityIdentifier_eq(b, a)
        /\ (EntityIdentifier_eq(a, b) /\ EntityIdentifier_eq(b, c)) => EntityIdentifier_eq(a, c)

\* C23: in every reachable state any two different stored entities have unequal
\* identifiers: different UUIDs and, when both were inserted with a PK,
\* different models or different PKs.
C23_StoredIdentifiersDistinct ==
    \A g \in Handles : \A h \in Handles :
        g # h =>
            /\ ~EntityIdentifier_eq(entities[g].identifier, entities[h].identifier)
            /\ entities[g].identifier.uuid # entities[h].identifier.uuid
            /\ (has_applied_pk(entities[g].identifier) /\ has_applied_pk(entities[h].identifier))
                 => <<entities[g].identifier.model, entities[g].identifier.pk>>
                      # <<entities[h].identifier.model, entities[h].identifier.pk>>

\* Two entities of one model are stored, the first inserted with a PK and the
\* second without; instantiate_entity with an identifier equal to both (the UUID
\* of the second, the model and PK of the first) returned the second and stored
\* nothing.
C23_Witness ==
    /\ Len(entities) = 2
    /\ entities[1].identifier.model = entities[2].identifier.model
    /\ has_applied_pk(entities[1].identifier)
    /\ ~has_applied_pk(entities[2].identifier)
    /\ last.op = "instantiate"
    /\ last.res = Ok(2)
    /\ EntityIdentifier_eq(last.identifier, entities[1].identifier)
    /\ EntityIdentifier_eq(last.identifier, entities[2].identifier)

\* The stored entities whose identifier equals the identifier.
EqualStored(identifier) ==
    {h \in Handles : EntityIdentifier_eq(entities[h].identifier, identifier)}

ListOf(model) == IF model \in DOMAIN storage THEN storage[model] ELSE <<>>

C24_ReturnsStored(identifier, res) ==
    /\ res.status = "Ok"
    /\ res.val \in EqualStored(identifier)
    /\ UNCHANGED <<entities, storage, entities_uuid_index, entities_pk_index>>

C24_AppendsOne(identifier, res) ==
    /\ res = Ok(Len(entities) + 1)
    /\ Len(entities') = Len(entities) + 1
    /\ \A h \in Handles : entities'[h] = entities[h]
    /\ entities'[Len(entities')].identifier = identifier
    /\ DOMAIN storage' = DOMAIN storage \cup {identifier.model}
    /\ storage'[identifier.model] = Append(ListOf(identifier.model), Len(entities'))
    /\ \A m \in DOMAIN storage : m # identifier.model => storage'[m] = storage[m]

\* C24: an instantiate_entity step with Physical descriptors returns a stored
\* entity, whose identifier equals the given one, and stores nothing when some
\* stored entity has an identifier equal to the given one; else it adds one
\* entity, at the end of the list of the identifier's model, and changes no
\* other list.
C24_DedupOnEquality ==
    [][(last'.op = "instantiate" /\ AllPhysical(last'.attributes))
       => IF EqualStored(last'.identifier) # {}
          THEN C24_ReturnsStored(last'.identifier, last'.res)
          ELSE C24_AppendsOne(last'.identifier, last'.res)]_vars

\* instantiate_entity stored a second entity, for an identifier with the PK of
\* the first stored entity and the other model: each model has its list.
C24_Witness ==
    /\ last.op = "instantiate"
    /\ last.res = Ok(2)
    /\ Len(entities) = 2
    /\ entities[2].identifier = last.identifier
    /\ has_applied_pk(last.identifier)
    /\ entities[1].identifier.pk = last.identifier.pk
    /\ entities[1].identifier.model # last.identifier.model
    /\ DOMAIN storage = Models

\* The read of the written attribute at epoch is the same before and after the
\* step.
C25_SameRead(epoch) ==
    get_at_epoch(HistoryAfter(last'.handle, last'.name), epoch)
        = get_at_epoch(History(last'.handle, last'.name), epoch)

\* The history of the written attribute held an entry with an epoch <= epoch
\* before the step.
C25_Covered(epoch) ==
    \E i \in DOMAIN History(last'.handle, last'.name) :
        History(last'.handle, last'.name)[i].epoch <= epoch

\* Every attribute but the written one, of every entity, keeps its history, and
\* no entity is added, removed or given another identifier.
C25_OtherHistoriesKept ==
    /\ Len(entities') = Len(entities)
    /\ \A h \in Handles :
          /\ entities'[h].identifier = entities[h].identifier
          /\ DOMAIN entities'[h].physical_attributes = AttributesOf(h)
          /\ \A n \in AttributesOf(h) :
                (h # last'.handle \/ n # last'.name) => HistoryAfter(h, n) = History(h, n)

\* C25: a set_value(v, E) step on attribute A leaves the read of A unchanged at
\* every epoch E' < E for which the history of A already held an entry with
\* epoch <= E', leaves the history of every other attribute of the same entity
\* and of every other entity unchanged, and leaves the storage, the index and
\* both cursors unchanged.
C25_WriteFrame ==
    [][(last'.op = "set_value") =>
          /\ \A E \in ProbeEpochs :
                (E < last'.epoch /\ C25_Covered(E)) => C25_SameRead(E)
          /\ C25_OtherHistoriesKept
          /\ UNCHANGED <<storage, entities_uuid_index, entities_pk_index, epoch_ptr>>]_vars

\* Two entities with two attributes each; the last write landed between an
\* older entry and a later write of the same attribute, so reads at the epochs
\* from the older entry up to the written epoch were covered, and the other
\* entity was made later than epoch 0.
C25_Witness ==
    /\ last.op = "set_value"
    /\ Len(entities) = 2
    /\ \A h \in Handles : AttributesOf(h) = Names
    /\ LET h == History(last.handle, last.name)
       IN  /\ Len(h) = 3
           /\ h[2] = AttributeValue(last.epoch, last.value)
           /\ h[1].epoch < last.epoch
           /\ h[1].value # last.value
           /\ h[3].epoch > last.epoch
    /\ \E g \in Handles : g # last.handle /\ History(g, "name")[1].epoch > 0

====
